---- MODULE Spec2Model ----
(***************************************************************************)
(* Model of models/Attention.py: BahdanauAttention.forward and the         *)
(* DecoderLSTM state machine (init_hidden, the training forward loop with  *)
(* scheduled sampling, and greedy_search).                                 *)
(*                                                                         *)
(* Tensors are sequences indexed from 1 along every axis: a FeatureMap of  *)
(* shape (batch, num_slots, num_features) is features[e][i][d].  Real      *)
(* numbers that the claims are about (softmax weights, the context, the    *)
(* mean of the features) are exact rationals <<numerator, denominator>>.   *)
(* The learned layers (nn.Linear, nn.LSTMCell, nn.Embedding) are library   *)
(* code with trained weights: each is a fixed deterministic function of    *)
(* its input, chosen by the parameter set theta drawn at construction.     *)
(* hidden_dim and embedding_dim are 1, so h, c and an embedding are one    *)
(* integer per example.                                                    *)
(*                                                                         *)
(* Spec is the module as the source has it: init_hidden returns None, so   *)
(* forward and greedy_search raise where they unpack its result.           *)
(* SpecDecoder is the decoder with init_hidden returning the pair (h0, c0) *)
(* its docstring names, which is what lets the two loops run.              *)
(***************************************************************************)
EXTENDS Integers, Sequences, FiniteSets, TLC

VARIABLES
    theta,             \* the learned parameters of every layer
    training,          \* nn.Module.training of the decoder
    device_defined,    \* whether the module-level name `device` is bound
    completed,         \* FALSE: init_hidden as src/ has it; TRUE: with the tail the spec describes
    pc,                \* "idle" | "forward_loop" | "greedy_loop" | "returned" | "raised"
    op,                \* the method being executed
    features, captions, sample_prob_arg, max_sentence,    \* arguments of the call
    embed, t, sample_prob, use_sampling, word_embed,      \* locals of forward
    h, c, context, attention_weight,                      \* locals shared by the methods
    outputs, attention_weights,                           \* tensors forward returns
    sentence, weights, input_word,                        \* locals of greedy_search
    log,               \* history: one record per executed loop iteration
    result             \* [exc |-> the exception raised or "", value |-> the value returned]

vars == <<theta, training, device_defined, completed, pc, op, features, captions,
          sample_prob_arg, max_sentence, embed, t, sample_prob, use_sampling,
          word_embed, h, c, context, attention_weight, outputs, attention_weights,
          sentence, weights, input_word, log, result>>

(***************************************************************************)
(* Bounds of the model.                                                    *)
(***************************************************************************)
MaxBatch == 2      \* batch sizes 1..MaxBatch in direct calls of the attention
MaxSlots == 2      \* num_slots 1..MaxSlots
MaxSeq == 3        \* seq_len 0..MaxSeq and max_sentence 0..MaxSeq
MaxTheta == 1      \* parameter sets 0..MaxTheta

(***************************************************************************)
(* Constants of the program.                                               *)
(***************************************************************************)
num_features == 2
vocab_size == 3
StartToken == 0
EndToken == 1
DropPercent == 50            \* p = 0.5
SampleTempPercent == 50      \* self.sample_temp = 0.5
DefaultSampleProb == 0       \* sample_prob = 0.0 in forward's signature
FirstStepSampleProb == 0     \* 0.0 if t == 0
LaterStepSampleProb == 50    \* else 0.5

\* Python's None, an unbound local, an empty list
None == <<>>
Vocab == 0 .. (vocab_size - 1)
FeatVals == {0, 1}
FeatureVecs == {v \in [1 .. num_features -> FeatVals] : v[1] # v[2]}
HiddenVals == 0 .. 2
\* outcomes of np.random.random(), in percent: representatives of [0, 1)
Draws == {0, 60}
\* values a caller passes as sample_prob, in percent
SampleProbArgs == {DefaultSampleProb, 100}

(***************************************************************************)
(* Exact rationals.                                                        *)
(***************************************************************************)
RECURSIVE GCD(_, _)
GCD(a, b) == IF b = 0 THEN a ELSE GCD(b, a % b)

Rat(n, d) == LET g == GCD(IF n < 0 THEN -n ELSE n, d) IN <<n \div g, d \div g>>
RAdd(x, y) == Rat(x[1] * y[2] + y[1] * x[2], x[2] * y[2])
RMul(x, y) == Rat(x[1] * y[1], x[2] * y[2])
RInt(n) == <<n, 1>>

RECURSIVE RSum(_)
RSum(s) == IF s = <<>> THEN RInt(0) ELSE RAdd(Head(s), RSum(Tail(s)))

RECURSIVE ISum(_)
ISum(s) == IF s = <<>> THEN 0 ELSE Head(s) + ISum(Tail(s))

Max(S) == CHOOSE x \in S : \A y \in S : y <= x

Exp(s) == 2 ^ s

(***************************************************************************)
(* BahdanauAttention.forward                                               *)
(***************************************************************************)
\* v_a(tanh(W_a(features) + U_a(hidden_size.unsqueeze(1)))): one score per
\* example and slot, from that slot's feature vector and that example's hidden
AttentionScore(feats, hidden) ==
    [e \in 1 .. Len(feats) |->
        [i \in 1 .. Len(feats[e]) |->
            (feats[e][i][1] + 2 * feats[e][i][2] + hidden[e] + theta) % 3]]

\* F.softmax(attention_score, dim=0): normalised over the batch axis
SoftmaxDim0(score) ==
    [e \in 1 .. Len(score) |->
        [i \in 1 .. Len(score[e]) |->
            Rat(Exp(score[e][i]),
                ISum([e2 \in 1 .. Len(score) |-> Exp(score[e2][i])]))]]

\* F.softmax(attention_score, dim=1): normalised over the slot axis
SoftmaxDim1(score) ==
    [e \in 1 .. Len(score) |->
        [i \in 1 .. Len(score[e]) |->
            Rat(Exp(score[e][i]),
                ISum([j \in 1 .. Len(score[e]) |-> Exp(score[e][j])]))]]

\* attention_weight * features: (B, N, 1) broadcast against (B, N, D)
WeightedFeatures(aw, feats) ==
    [e \in 1 .. Len(feats) |->
        [i \in 1 .. Len(feats[e]) |->
            [d \in 1 .. num_features |-> RMul(aw[e][i], RInt(feats[e][i][d]))]]]

\* torch.sum(x, dim=1) of a (B, N, D) tensor
SumDim1(x) ==
    [e \in 1 .. Len(x) |->
        [d \in 1 .. num_features |->
            RSum([i \in 1 .. Len(x[e]) |-> x[e][i][d]])]]

\* the pair (context, attention_weight) the method returns; each intermediate
\* tensor is computed once, in the order of the method's statements
AttentionForward(feats, hidden) ==
    LET Reduce(aw) == <<SumDim1(WeightedFeatures(aw, feats)), aw>>
        Normalize(attention_score) ==
            CHOOSE r \in {Reduce(aw) : aw \in {SoftmaxDim1(attention_score)}} : TRUE
    IN  CHOOSE r \in {Normalize(attention_score) :
                         attention_score \in {AttentionScore(feats, hidden)}} : TRUE

(***************************************************************************)
(* DecoderLSTM: layers                                                     *)
(***************************************************************************)
\* self.embeddings: the row of the embedding matrix for a token
embeddings(tok) == 1 + ((tok * (theta + 1)) % vocab_size)

\* torch.mean(features, dim=1)
MeanDim1(feats) ==
    [e \in 1 .. Len(feats) |->
        [d \in 1 .. num_features |->
            RMul(RSum([i \in 1 .. Len(feats[e]) |-> RInt(feats[e][i][d])]),
                 <<1, Len(feats[e])>>)]]

init_h(mean) == [e \in 1 .. Len(mean) |-> (mean[e][1][1] + mean[e][2][1] + theta) % 3]
init_c(mean) == [e \in 1 .. Len(mean) |-> (mean[e][1][1] + 2 * mean[e][2][2] + theta + 1) % 3]

\* init_hidden as the source has it: h0 is computed, nothing is returned
init_hidden(feats) ==
    LET mean_annotations == MeanDim1(feats)
        h0 == init_h(mean_annotations)
    IN  None

\* init_hidden with the tail its docstring and the spec describe
init_hidden_completed(feats) ==
    LET mean_annotations == MeanDim1(feats)
    IN  <<init_h(mean_annotations), init_c(mean_annotations)>>

InitHiddenCall(feats) ==
    IF completed THEN init_hidden_completed(feats) ELSE init_hidden(feats)

\* self.lstm(input_concat, (h, c)): the new (h, c) of an nn.LSTMCell
LSTMCell(input_concat, hh, cc) ==
    LET pre(e) == input_concat[e][1] + input_concat[e][2][1] + input_concat[e][3][1]
                  + hh[e] + cc[e] + theta
        c2 == [e \in 1 .. Len(hh) |-> (cc[e] + pre(e)) % 3]
    IN  <<[e \in 1 .. Len(hh) |-> (pre(e) + 2 * c2[e]) % 3], c2>>

\* torch.cat([word_embed, context], 1)
Concat(we, ctx) == [e \in 1 .. Len(we) |-> <<we[e]>> \o ctx[e]]

\* the masks nn.Dropout can draw: one keep/drop bit per element in training
\* mode, none dropped in evaluation mode
DropMasks(n) ==
    IF training THEN [1 .. n -> {0, 1}] ELSE {[e \in 1 .. n |-> 1]}

\* dropout that ignores the module's mode (F.dropout's default training=True)
DropAlways(x, mask) ==
    [e \in 1 .. Len(x) |-> (x[e] * mask[e] * 100) \div (100 - DropPercent)]

\* self.drop(h): in training mode kept elements are scaled by 1 / (1 - p) and
\* the others zeroed; in evaluation mode the input is returned
Drop(x, mask) ==
    IF training
    THEN [e \in 1 .. Len(x) |-> (x[e] * mask[e] * 100) \div (100 - DropPercent)]
    ELSE x

\* self.fc(h): vocabulary logits
fc(hh) ==
    [e \in 1 .. Len(hh) |->
        [v \in Vocab |-> (hh[e] * (v + 1) + theta * v + v * v) % 4]]

\* output / self.sample_temp
ScaleByTemp(output) ==
    [e \in 1 .. Len(output) |->
        [v \in Vocab |-> (output[e][v] * 100) \div SampleTempPercent]]

\* F.log_softmax(x, dim=1): x minus logsumexp(x) per example; the largest
\* logit stands for logsumexp (only the order within a row is used)
LogSoftmax(x) ==
    [e \in 1 .. Len(x) |->
        [v \in Vocab |-> x[e][v] - Max({x[e][u] : u \in Vocab})]]

\* the indices topk(1)[1] can return for one row (ties are not ordered)
TopK1(row) == {v \in Vocab : \A u \in Vocab : row[u] <= row[v]}

(***************************************************************************)
(* Inputs                                                                  *)
(***************************************************************************)
FeatureMaps(batches) ==
    UNION {[1 .. b -> [1 .. n -> FeatureVecs]] : b \in batches, n \in 1 .. MaxSlots}

\* captions of shape (1, seq_len): token k of a caption is (a + b * k) mod
\* vocab_size, for every first token a and stride b in {0, 1}
Captions ==
    {<<[k \in 1 .. n |-> (a + b * k) % vocab_size]>> :
        n \in 0 .. MaxSeq, a \in Vocab, b \in {0, 1}}

Hiddens(b) == [1 .. b -> HiddenVals]

NoResult == [exc |-> "", value |-> None]
Raised(e) == [exc |-> e, value |-> None]
Returned(v) == [exc |-> "", value |-> v]

Zeros(b, n, row) == [e \in 1 .. b |-> [k \in 1 .. n |-> row]]

LogEntry(step, draw, us, iw, fed, hcell, hout, out, top, attn) ==
    [t |-> step, draw |-> draw, use_sampling |-> us, input_word |-> iw, fed |-> fed,
     h_cell |-> hcell, h_out |-> hout, output |-> out, top |-> top, attn |-> attn,
     training |-> training]

(***************************************************************************)
(* Initial states                                                          *)
(***************************************************************************)
Locals0 ==
    /\ pc = "idle" /\ op = "none"
    /\ features = None /\ captions = None
    /\ sample_prob_arg = DefaultSampleProb /\ max_sentence = 0
    /\ embed = None /\ t = 0 /\ sample_prob = DefaultSampleProb
    /\ use_sampling = FALSE /\ word_embed = None
    /\ h = None /\ c = None /\ context = None /\ attention_weight = None
    /\ outputs = None /\ attention_weights = None
    /\ sentence = None /\ weights = None /\ input_word = StartToken
    /\ log = <<>> /\ result = NoResult

\* after DecoderLSTM.__init__: a fresh nn.Module is in training mode
Init ==
    /\ theta \in 0 .. MaxTheta
    /\ training = TRUE
    /\ device_defined \in BOOLEAN
    /\ completed = FALSE
    /\ Locals0

InitDecoder ==
    /\ theta \in 0 .. MaxTheta
    /\ training = TRUE
    /\ device_defined = TRUE
    /\ completed = TRUE
    /\ Locals0

Config == <<theta, training, device_defined, completed>>
ForwardLocals == <<captions, sample_prob_arg, embed, t, sample_prob, use_sampling,
                   word_embed, outputs, attention_weights>>
GreedyLocals == <<max_sentence, sentence, weights, input_word>>

(***************************************************************************)
(* Operations                                                              *)
(***************************************************************************)
\* decoder.eval()
Eval ==
    /\ pc = "idle" /\ training
    /\ training' = FALSE
    /\ UNCHANGED <<theta, device_defined, completed, pc, op, features, h, c, context,
                   attention_weight, log, result, ForwardLocals, GreedyLocals>>

\* decoder.train()
Train ==
    /\ pc = "idle" /\ ~training
    /\ training' = TRUE
    /\ UNCHANGED <<theta, device_defined, completed, pc, op, features, h, c, context,
                   attention_weight, log, result, ForwardLocals, GreedyLocals>>

\* the caller takes the result (or catches the exception); locals are dropped
Return ==
    /\ pc \in {"returned", "raised"}
    /\ pc' = "idle" /\ op' = "none"
    /\ features' = None /\ captions' = None
    /\ sample_prob_arg' = DefaultSampleProb /\ max_sentence' = 0
    /\ embed' = None /\ t' = 0 /\ sample_prob' = DefaultSampleProb
    /\ use_sampling' = FALSE /\ word_embed' = None
    /\ h' = None /\ c' = None /\ context' = None /\ attention_weight' = None
    /\ outputs' = None /\ attention_weights' = None
    /\ sentence' = None /\ weights' = None /\ input_word' = StartToken
    /\ log' = <<>> /\ result' = NoResult
    /\ UNCHANGED Config

\* BahdanauAttention.forward(features, hidden_size), called on its own
CallAttention ==
    /\ pc = "idle"
    /\ \E feats \in FeatureMaps(1 .. MaxBatch) :
       \E hidden \in Hiddens(Len(feats)) :
       \E r \in {AttentionForward(feats, hidden)} :
          /\ op' = "attention" /\ pc' = "returned"
          /\ features' = feats /\ h' = hidden
          /\ context' = r[1] /\ attention_weight' = r[2]
          /\ result' = Returned(r)
    /\ UNCHANGED <<Config, c, log, ForwardLocals, GreedyLocals>>

\* DecoderLSTM.init_hidden(features), called on its own
CallInitHidden ==
    /\ pc = "idle"
    /\ \E feats \in FeatureMaps({1}) :
          /\ op' = "init_hidden" /\ pc' = "returned"
          /\ features' = feats
          /\ result' = Returned(InitHiddenCall(feats))
    /\ UNCHANGED <<Config, h, c, context, attention_weight, log, ForwardLocals,
                   GreedyLocals>>

(***************************************************************************)
(* DecoderLSTM.forward                                                     *)
(***************************************************************************)
\* sample_prob = 0.5 at every step, the first included
ForwardSampleProbEveryStep(step) == LaterStepSampleProb

\* sample_prob = 0.0 if t == 0 else 0.5
ForwardSampleProb(step) ==
    IF step = 0 THEN FirstStepSampleProb ELSE LaterStepSampleProb

\* use_sampling = np.random.random() < sample_prob
UseSampling(draw, prob) == draw < prob

\* outputs[:, 0, :] = output: every step writes the first position
StoreAtFirst(tensor, step, value) ==
    [e \in 1 .. Len(tensor) |-> [tensor[e] EXCEPT ![1] = value[e]]]

\* outputs[:, t, :] = output  (and attention_weights[:, t, :] = attention_weight)
StoreAt(tensor, step, value) ==
    [e \in 1 .. Len(tensor) |-> [tensor[e] EXCEPT ![step + 1] = value[e]]]

\* the call up to the loop: embeddings of the captions, init_hidden, the
\* zero tensors.  Unpacking None raises TypeError; `device` unbound raises
\* NameError where the tensors are moved to it.
CallForward ==
    /\ pc = "idle"
    /\ \E caps \in Captions, feats \in FeatureMaps({1}), sp \in SampleProbArgs :
          LET hc == InitHiddenCall(feats)
              seq_len == Len(caps[1])
              slots == Len(feats[1])
          IN
          /\ op' = "forward"
          /\ captions' = caps /\ features' = feats /\ sample_prob_arg' = sp
          /\ sample_prob' = sp
          /\ embed' = [e \in 1 .. Len(caps) |->
                          [k \in 1 .. seq_len |-> embeddings(caps[e][k])]]
          /\ IF hc = None
             THEN /\ pc' = "raised" /\ result' = Raised("TypeError")
                  /\ UNCHANGED <<h, c, outputs, attention_weights>>
             ELSE IF ~device_defined
             THEN /\ pc' = "raised" /\ result' = Raised("NameError")
                  /\ h' = hc[1] /\ c' = hc[2]
                  /\ UNCHANGED <<outputs, attention_weights>>
             ELSE /\ pc' = "forward_loop" /\ result' = NoResult
                  /\ h' = hc[1] /\ c' = hc[2]
                  /\ outputs' = Zeros(Len(feats), seq_len, [v \in Vocab |-> 0])
                  /\ attention_weights' =
                         Zeros(Len(feats), seq_len, [i \in 1 .. slots |-> RInt(0)])
    /\ UNCHANGED <<Config, t, use_sampling, word_embed, context, attention_weight, log,
                   GreedyLocals>>

\* one iteration of `for t in range(seq_len)`
ForwardStep ==
    /\ pc = "forward_loop" /\ op = "forward"
    /\ t < Len(captions[1])
    /\ \E draw \in Draws, mask \in DropMasks(Len(features)) :
       \E prob \in {ForwardSampleProb(t)} :
       \E us \in {UseSampling(draw, prob)} :
       \E fed \in {IF us = FALSE THEN [e \in 1 .. Len(embed) |-> embed[e][t + 1]]
                   ELSE word_embed} :
          /\ sample_prob' = prob
          /\ use_sampling' = us
          /\ IF fed = None
             THEN \* word_embed is read before any assignment: UnboundLocalError
                  /\ pc' = "raised" /\ result' = Raised("UnboundLocalError")
                  /\ log' = Append(log, LogEntry(t, draw, us, StartToken, fed, None, None,
                                                 None, None, None))
                  /\ UNCHANGED <<word_embed, h, c, context, attention_weight, outputs,
                                 attention_weights, t>>
             ELSE \E att \in {AttentionForward(features, h)} :
                  \E cell \in {LSTMCell(Concat(fed, att[1]), h, c)} :
                  \E hd \in {Drop(cell[1], mask)} :
                  \E output \in {fc(hd)} :
                  \E scoring \in {LogSoftmax(ScaleByTemp(output))} :
                  \E top_idx \in [1 .. Len(features) -> Vocab] :
                         /\ \A e \in 1 .. Len(features) : top_idx[e] \in TopK1(scoring[e])
                         /\ word_embed' =
                                IF us = TRUE
                                THEN [e \in 1 .. Len(features) |-> embeddings(top_idx[e])]
                                ELSE fed
                         /\ h' = hd /\ c' = cell[2]
                         /\ context' = att[1] /\ attention_weight' = att[2]
                         /\ outputs' = StoreAt(outputs, t, output)
                         /\ attention_weights' = StoreAt(attention_weights, t, att[2])
                         /\ log' = Append(log, LogEntry(t, draw, us, StartToken, fed,
                                                        cell[1], hd, output, None, att[2]))
                         /\ t' = t + 1
                         /\ UNCHANGED <<pc, result>>
    /\ UNCHANGED <<Config, op, features, captions, sample_prob_arg, embed, GreedyLocals>>

\* range(seq_len) is exhausted: return outputs, attention_weights
ForwardReturn ==
    /\ pc = "forward_loop" /\ op = "forward"
    /\ t >= Len(captions[1])
    /\ pc' = "returned"
    /\ result' = Returned(<<outputs, attention_weights>>)
    /\ UNCHANGED <<Config, op, features, h, c, context, attention_weight, log,
                   ForwardLocals, GreedyLocals>>

(***************************************************************************)
(* DecoderLSTM.greedy_search                                               *)
(***************************************************************************)
\* input_word is left at the start token
GreedyNextInputStart(top_idx) == StartToken

\* input_word = top_idx
GreedyNextInput(top_idx) == top_idx

\* if (len(sentence) > max_sentence or top_idx == 1): break
GreedyBreakOffByOne(len, max, top_idx) == len > max \/ top_idx = EndToken

\* if (len(sentence) >= max_sentence): break
GreedyBreakNoEndTest(len, max, top_idx) == len >= max

\* if (len(sentence) >= max_sentence or top_idx == 1): break
GreedyBreak(len, max, top_idx) == len >= max \/ top_idx = EndToken

\* the call up to the loop.  `device` is read first (NameError when unbound),
\* then init_hidden's result is unpacked (TypeError for None).
CallGreedySearch ==
    /\ pc = "idle"
    /\ \E feats \in FeatureMaps({1}), max \in 0 .. MaxSeq :
          LET hc == InitHiddenCall(feats) IN
          /\ op' = "greedy_search"
          /\ features' = feats /\ max_sentence' = max
          /\ sentence' = <<>> /\ weights' = <<>>
          /\ IF ~device_defined
             THEN /\ pc' = "raised" /\ result' = Raised("NameError")
                  /\ UNCHANGED <<input_word, h, c>>
             ELSE IF hc = None
             THEN /\ pc' = "raised" /\ result' = Raised("TypeError")
                  /\ input_word' = StartToken
                  /\ UNCHANGED <<h, c>>
             ELSE /\ pc' = "greedy_loop" /\ result' = NoResult
                  /\ input_word' = StartToken
                  /\ h' = hc[1] /\ c' = hc[2]
    /\ UNCHANGED <<Config, context, attention_weight, log, ForwardLocals>>

\* one iteration of `while True`, with the break test that ends it
GreedyStep ==
    /\ pc = "greedy_loop" /\ op = "greedy_search"
    /\ \E mask \in DropMasks(1) :
       \E embedded_word \in {<<embeddings(input_word)>>} :
       \E att \in {AttentionForward(features, h)} :
       \E cell \in {LSTMCell(Concat(embedded_word, att[1]), h, c)} :
       \E hd \in {Drop(cell[1], mask)} :
       \E output \in {fc(hd)} :
       \E scoring \in {LogSoftmax(output)} :
       \E top_idx \in TopK1(scoring[1]) :
                 /\ h' = hd /\ c' = cell[2]
                 /\ context' = att[1] /\ attention_weight' = att[2]
                 /\ sentence' = Append(sentence, top_idx)
                 /\ weights' = Append(weights, att[2])
                 /\ input_word' = GreedyNextInput(top_idx)
                 /\ log' = Append(log, LogEntry(Len(sentence), 0, FALSE, input_word,
                                                embedded_word, cell[1], hd, output,
                                                top_idx, att[2]))
                 /\ IF GreedyBreak(Len(sentence) + 1, max_sentence, top_idx)
                    THEN /\ pc' = "returned"
                         /\ result' = Returned(<<Append(sentence, top_idx),
                                                 Append(weights, att[2])>>)
                    ELSE UNCHANGED <<pc, result>>
    /\ UNCHANGED <<Config, op, features, max_sentence, ForwardLocals>>

(***************************************************************************)
(* Specifications                                                          *)
(***************************************************************************)
\* the program as src/ has it: init_hidden returns None
Next ==
    \/ CallAttention
    \/ CallInitHidden
    \/ CallForward
    \/ CallGreedySearch
    \/ Eval
    \/ Train
    \/ Return

Spec == Init /\ [][Next]_vars

\* the decoder with init_hidden returning (h0, c0) and `device` bound
NextDecoder ==
    \/ CallInitHidden
    \/ CallForward
    \/ ForwardStep
    \/ ForwardReturn
    \/ CallGreedySearch
    \/ GreedyStep
    \/ Eval
    \/ Train
    \/ Return

SpecDecoder == InitDecoder /\ [][NextDecoder]_vars

(***************************************************************************)
(* Properties                                                              *)
(***************************************************************************)
InGreedy == op = "greedy_search" /\ pc \in {"greedy_loop", "returned"}
InForward == op = "forward" /\ pc \in {"forward_loop", "returned", "raised"}
SeqLen == Len(captions[1])
Last(s) == s[Len(s)]

InitHiddenYieldsPair ==
    /\ (op = "init_hidden" /\ pc = "returned") =>
           result.value = <<init_h(MeanDim1(features)), init_c(MeanDim1(features))>>
    /\ (op \in {"forward", "greedy_search"} /\ pc = "raised") =>
           result.exc # "TypeError"

AttentionWeightsAreDistribution ==
    attention_weight # None =>
        \A e \in 1 .. Len(features) :
            /\ Len(attention_weight[e]) = Len(features[e])
            /\ \A i \in 1 .. Len(features[e]) :
                  attention_weight[e][i][1] >= 0 /\ attention_weight[e][i][2] > 0
            /\ RSum(attention_weight[e]) = RInt(1)
            /\ \A d \in 1 .. num_features :
                  context[e][d] =
                      RSum([i \in 1 .. Len(features[e]) |->
                               RMul(attention_weight[e][i], RInt(features[e][i][d]))])

\* the attention returned unequal weights for a batch of two examples
AttentionOnBatchReturned ==
    /\ op = "attention" /\ pc = "returned"
    /\ Len(features) >= 2 /\ Len(features[2]) >= 2
    /\ attention_weight[2][1] # attention_weight[2][2]
    /\ attention_weight[1] # attention_weight[2]

====
